---- MODULE Spec2Model ----
(***************************************************************************)
(* A model of gapbuffer.py: a gap buffer over an array.array of one       *)
(* typecode (the model fixes typecode "i", whose filler item is 0).        *)
(*                                                                         *)
(* The buffer is the record                                                *)
(*   [buf, gap_start, gap_end, content_end, gap_size, err]                 *)
(* where buf is the backing array (a sequence, physical offset k is        *)
(* buf[k+1]) and err is the exception an operation has raised ("none"      *)
(* while it has raised nothing).  Every method of the class is an operator *)
(* from a buffer record to a buffer record; the operations of the state    *)
(* machine apply them to the state variables.                              *)
(***************************************************************************)
EXTENDS Integers, Sequences, FiniteSets, TLC

VARIABLES buf, gap_start, gap_end, content_end, gap_size, last, ops

vars == <<buf, gap_start, gap_end, content_end, gap_size, last, ops>>

-----------------------------------------------------------------------------
(* Bounds of the model. *)

\* longest logical content an operation may produce
MaxLen == 3
\* largest minimum gap size a buffer is constructed with
MaxGap == 1
\* most operations applied to one buffer
MaxOps == 2

\* the elements stored by the operations (the filler item is not among them,
\* so that a gap or reserve slot showing through is visible)
Vals == {1, 2}

-----------------------------------------------------------------------------
(* Python built-ins the class relies on. *)

\* an omitted slice bound or step (None), and a given one
None == <<>>
Some(k) == <<k>>

Max(a, b) == IF a >= b THEN a ELSE b

SeqsUpTo(S, n) == UNION {[1..k -> S] : k \in 0..n}

\* the first n items of a sequence
Take(q, n) == SubSeq(q, 1, n)

\* n copies of item, as array.extend(item for i in xrange(n)) appends them
Fill(item, n) == [k \in 1..n |-> item]

\* array.array indexing: a negative offset counts from the end of the array,
\* an offset outside the array raises IndexError
ArrNorm(a, k) == IF k < 0 THEN k + Len(a) ELSE k
ArrOk(a, k) == ArrNorm(a, k) >= 0 /\ ArrNorm(a, k) < Len(a)
ArrGet(a, k) == a[ArrNorm(a, k) + 1]
ArrSet(a, k, v) == [a EXCEPT ![ArrNorm(a, k) + 1] = v]

\* the values that stand for objects that are not ints (a list, a string):
\* an array of typecode "i" raises TypeError when it is given one to store
NotInts == {-1}
Accepts(v) == v \notin NotInts

\* the items of other that array.extend(other) appends, one by one, before it
\* meets one the array rejects
RECURSIVE Accepted(_, _)
Accepted(other, k) ==
    IF k > Len(other) \/ ~Accepts(other[k]) THEN <<>>
    ELSE <<other[k]>> \o Accepted(other, k + 1)

\* slice(start, stop, step).indices(length), as CPython computes it
SliceStep(sl) == IF sl.step = None THEN 1 ELSE sl.step[1]

ClampBound(x, step, length) ==
    LET y == IF x < 0 THEN x + length ELSE x
    IN  IF y < 0 THEN (IF step < 0 THEN -1 ELSE 0)
        ELSE IF y >= length THEN (IF step < 0 THEN length - 1 ELSE length)
        ELSE y

SliceIndices(sl, length) ==
    LET step == SliceStep(sl)
        start == IF sl.start = None
                 THEN (IF step < 0 THEN length - 1 ELSE 0)
                 ELSE ClampBound(sl.start[1], step, length)
        stop == IF sl.stop = None
                THEN (IF step < 0 THEN -1 ELSE length)
                ELSE ClampBound(sl.stop[1], step, length)
    IN  [start |-> start, stop |-> stop, step |-> step]

\* xrange(start, stop, step) as the sequence of its items
XRangeLen(start, stop, step) ==
    IF step > 0
    THEN (IF start < stop THEN ((stop - start - 1) \div step) + 1 ELSE 0)
    ELSE (IF start > stop THEN ((start - stop - 1) \div (-step)) + 1 ELSE 0)

XRange(start, stop, step) ==
    [k \in 1..XRangeLen(start, stop, step) |-> start + (k - 1) * step]

-----------------------------------------------------------------------------
(* The class. *)

\* the __gap_len property
gap_len(s) == s.gap_end - s.gap_start

\* __len__
Length(s) == s.content_end - gap_len(s)

\* the operation raises e
Raise(s, e) == [s EXCEPT !.err = e]

\* the filler item of typecode "i"
Item == 0

\* __init__ with the gap end taken after the initial content is added
NewGapEndLate(initial_content, gsize) ==
    LET a == Fill(Item, gsize) \o initial_content
    IN  [buf |-> a,
         gap_start |-> 0,
         gap_end |-> Len(a),
         content_end |-> Len(a),
         gap_size |-> gsize,
         err |-> "none"]

\* __init__
New(initial_content, gsize) ==
    LET b0 == Fill(Item, gsize)
    IN  [buf |-> b0 \o initial_content,
         gap_start |-> 0,
         gap_end |-> Len(b0),
         content_end |-> Len(b0) + Len(initial_content),
         gap_size |-> gsize,
         err |-> "none"]

\* __enforce_index, for one index: TRUE when the index is accepted
enforce_index(s, i) == ~(i >= Length(s) \/ i < -Length(s))

\* the offset __get_index and __set_index compute for an accepted index
PhysIndex(s, i) == IF i < s.gap_start THEN i ELSE i + gap_len(s)

\* __get_index: [val, err]
get_index(s, i) ==
    IF ~enforce_index(s, i) THEN [val |-> Item, err |-> "IndexError"]
    ELSE IF ~ArrOk(s.buf, PhysIndex(s, i))
         THEN [val |-> Item, err |-> "IndexError"]
         ELSE [val |-> ArrGet(s.buf, PhysIndex(s, i)), err |-> "none"]

\* __set_index
set_index(s, i, value) ==
    IF ~enforce_index(s, i) THEN Raise(s, "IndexError")
    ELSE IF ~ArrOk(s.buf, PhysIndex(s, i)) THEN Raise(s, "IndexError")
    ELSE IF ~Accepts(value) THEN Raise(s, "TypeError")
         ELSE [s EXCEPT !.buf = ArrSet(s.buf, PhysIndex(s, i), value)]

\* iteration over the buffer: the class defines no __iter__, so Python calls
\* __getitem__ with 0, 1, 2, ... until it raises IndexError
RECURSIVE IterFrom(_, _)
IterFrom(s, i) ==
    LET r == get_index(s, i)
    IN  IF r.err # "none" THEN <<>> ELSE <<r.val>> \o IterFrom(s, i + 1)

Iterate(s) == IterFrom(s, 0)


\* __resize_buf: extend_len is max(1, int((1.0 + 1.0/16) * (1 + len(buf)))),
\* and 17/16 of a small integer is exact in floating point
extend_len(n) == Max(1, (17 * (1 + n)) \div 16)

RECURSIVE resize_buf(_, _)
resize_buf(a, target_size) ==
    IF Len(a) < target_size
    THEN resize_buf(a \o Fill(Item, extend_len(Len(a))), target_size)
    ELSE a

\* the lengths the array has each time the loop condition of __resize_buf is
\* evaluated, the last one being the length it is left with
RECURSIVE resize_steps(_, _)
resize_steps(a, target_size) ==
    IF Len(a) < target_size
    THEN <<Len(a)>> \o resize_steps(a \o Fill(Item, extend_len(Len(a))), target_size)
    ELSE <<Len(a)>>

\* the copy loop of __resize_gap scanning front to back: lo is the next offset
\* to copy, i the last one
RECURSIVE ShiftRightForward(_, _, _, _)
ShiftRightForward(s, i, lo, gap_delta) ==
    IF i < lo \/ s.err # "none" THEN s
    ELSE IF ~ArrOk(s.buf, lo) \/ ~ArrOk(s.buf, lo + gap_delta)
         THEN Raise(s, "IndexError")
         ELSE ShiftRightForward([s EXCEPT !.buf = ArrSet(s.buf, lo + gap_delta,
                                                         ArrGet(s.buf, lo))],
                                i, lo + 1, gap_delta)

\* the copy loop of __resize_gap, for i in reversed(xrange(gap_end, content_end)):
\* i is the next offset to copy, lo the last one
RECURSIVE ShiftRight(_, _, _, _)
ShiftRight(s, i, lo, gap_delta) ==
    IF i < lo \/ s.err # "none" THEN s
    ELSE IF ~ArrOk(s.buf, i) \/ ~ArrOk(s.buf, i + gap_delta)
         THEN Raise(s, "IndexError")
         ELSE ShiftRight([s EXCEPT !.buf = ArrSet(s.buf, i + gap_delta,
                                                  ArrGet(s.buf, i))],
                         i - 1, lo, gap_delta)

\* __resize_gap enlarging the gap to the target size only, without gap_size
ResizeGapExactly(s, target_size) ==
    IF s.err # "none" THEN s
    ELSE IF gap_len(s) < target_size
    THEN LET gap_delta == target_size - gap_len(s)
             grown == [s EXCEPT !.buf = resize_buf(s.buf, Len(s.buf) + gap_delta)]
             moved == ShiftRight(grown, s.content_end - 1, s.gap_end, gap_delta)
         IN  IF moved.err # "none" THEN moved
             ELSE [moved EXCEPT !.gap_end = s.gap_end + gap_delta,
                                !.content_end = s.content_end + gap_delta]
    ELSE s

\* __resize_gap
resize_gap(s, target_size) ==
    IF s.err # "none" THEN s
    ELSE IF gap_len(s) < target_size
    THEN LET gap_delta == target_size + s.gap_size - gap_len(s)
             grown == [s EXCEPT !.buf = resize_buf(s.buf, Len(s.buf) + gap_delta)]
             moved == ShiftRight(grown, s.content_end - 1, s.gap_end, gap_delta)
         IN  IF moved.err # "none" THEN moved
             ELSE [moved EXCEPT !.gap_end = s.gap_end + gap_delta,
                                !.content_end = s.content_end + gap_delta]
    ELSE s

\* the two loops of __move_gap
RECURSIVE MoveLeft(_, _)
MoveLeft(s, index) ==
    IF s.err # "none" \/ ~(s.gap_start > index) THEN s
    ELSE LET gs == s.gap_start - 1
             ge == s.gap_end - 1
         IN  IF ~ArrOk(s.buf, ge) \/ ~ArrOk(s.buf, gs)
             THEN Raise([s EXCEPT !.gap_start = gs, !.gap_end = ge], "IndexError")
             ELSE MoveLeft([s EXCEPT !.gap_start = gs, !.gap_end = ge,
                                     !.buf = ArrSet(s.buf, ge, ArrGet(s.buf, gs))],
                           index)

\* the second loop of __move_gap sliding the gap before it copies
RECURSIVE MoveRightSlidesFirst(_, _)
MoveRightSlidesFirst(s, index) ==
    IF s.err # "none" \/ ~(s.gap_start < index) THEN s
    ELSE IF ~ArrOk(s.buf, s.gap_start + 1) \/ ~ArrOk(s.buf, s.gap_end + 1)
         THEN Raise(s, "IndexError")
         ELSE MoveRightSlidesFirst(
                  [s EXCEPT !.buf = ArrSet(s.buf, s.gap_start + 1,
                                           ArrGet(s.buf, s.gap_end + 1)),
                            !.gap_start = s.gap_start + 1,
                            !.gap_end = s.gap_end + 1],
                  index)

RECURSIVE MoveRight(_, _)
MoveRight(s, index) ==
    IF s.err # "none" \/ ~(s.gap_start < index) THEN s
    ELSE IF ~ArrOk(s.buf, s.gap_start) \/ ~ArrOk(s.buf, s.gap_end)
         THEN Raise(s, "IndexError")
         ELSE MoveRight([s EXCEPT !.buf = ArrSet(s.buf, s.gap_start,
                                                 ArrGet(s.buf, s.gap_end)),
                                  !.gap_start = s.gap_start + 1,
                                  !.gap_end = s.gap_end + 1],
                        index)

\* __move_gap without the normalization of a negative index
MoveGapKeepsSign(s, index) ==
    IF s.err # "none" THEN s
    ELSE IF Length(s) = 0 THEN s
    ELSE IF ~(0 <= index /\ index <= Length(s))
         THEN Raise(s, "AssertionError")
         ELSE IF gap_len(s) = 0
              THEN [s EXCEPT !.gap_start = index, !.gap_end = index]
              ELSE MoveRight(MoveLeft(s, index), index)

\* __move_gap
move_gap(s, index0) ==
    IF s.err # "none" THEN s
    ELSE IF Length(s) = 0 THEN s
    ELSE LET index == IF index0 < 0 THEN Length(s) + index0 ELSE index0
         IN  IF ~(0 <= index /\ index <= Length(s))
             THEN Raise(s, "AssertionError")
             ELSE IF gap_len(s) = 0
                  THEN [s EXCEPT !.gap_start = index, !.gap_end = index]
                  ELSE MoveRight(MoveLeft(s, index), index)

\* the elements the first loop of __move_gap copies, one each time round
RECURSIVE CopiesLeft(_, _)
CopiesLeft(s, index) ==
    IF s.err # "none" \/ ~(s.gap_start > index) THEN 0
    ELSE LET gs == s.gap_start - 1
             ge == s.gap_end - 1
         IN  IF ~ArrOk(s.buf, ge) \/ ~ArrOk(s.buf, gs) THEN 0
             ELSE 1 + CopiesLeft([s EXCEPT !.gap_start = gs, !.gap_end = ge], index)

\* the elements the second loop of __move_gap copies
RECURSIVE CopiesRight(_, _)
CopiesRight(s, index) ==
    IF s.err # "none" \/ ~(s.gap_start < index) THEN 0
    ELSE IF ~ArrOk(s.buf, s.gap_start) \/ ~ArrOk(s.buf, s.gap_end) THEN 0
         ELSE 1 + CopiesRight([s EXCEPT !.gap_start = s.gap_start + 1,
                                        !.gap_end = s.gap_end + 1],
                              index)

\* the copies of __move_gap without its branch for a zero-length gap
MoveCopiesAlways(s, index0) ==
    IF s.err # "none" \/ Length(s) = 0 THEN 0
    ELSE LET index == IF index0 < 0 THEN Length(s) + index0 ELSE index0
         IN  IF ~(0 <= index /\ index <= Length(s)) THEN 0
             ELSE CopiesLeft(s, index) + CopiesRight(MoveLeft(s, index), index)

\* the number of assignments buf[...] = buf[...] a call of __move_gap makes
move_copies(s, index0) ==
    IF s.err # "none" \/ Length(s) = 0 THEN 0
    ELSE LET index == IF index0 < 0 THEN Length(s) + index0 ELSE index0
         IN  IF ~(0 <= index /\ index <= Length(s)) THEN 0
             ELSE IF gap_len(s) = 0 THEN 0
             ELSE CopiesLeft(s, index) + CopiesRight(MoveLeft(s, index), index)

\* a slice object: each of start, stop and step is None or Some(k)
Slice(start, stop, step) == [start |-> start, stop |-> stop, step |-> step]

\* the extended-slice loop writing the first value at every addressed index
RECURSIVE SetEachFirstValue(_, _, _, _)
SetEachFirstValue(s, xr, values, k) ==
    IF s.err # "none" \/ k > Len(xr) \/ k > Len(values) THEN s
    ELSE SetEachFirstValue(set_index(s, xr[k], values[1]), xr, values, k + 1)

\* the loop of __set_slice over an extended slice, izip(xr, values) from its
\* k-th pair on: self[i] = v is __set_index
RECURSIVE SetEach(_, _, _, _)
SetEach(s, xr, values, k) ==
    IF s.err # "none" \/ k > Len(xr) \/ k > Len(values) THEN s
    ELSE SetEach(set_index(s, xr[k], values[k]), xr, values, k + 1)

\* the loop of __set_slice that writes the values into the gap, from the
\* k-th value on
RECURSIVE WriteGap(_, _, _)
WriteGap(s, values, k) ==
    IF s.err # "none" \/ k > Len(values) THEN s
    ELSE IF ~ArrOk(s.buf, s.gap_start) THEN Raise(s, "IndexError")
    ELSE IF ~Accepts(values[k]) THEN Raise(s, "TypeError")
         ELSE WriteGap([s EXCEPT !.buf = ArrSet(s.buf, s.gap_start, values[k]),
                                 !.gap_start = s.gap_start + 1],
                       values, k + 1)

\* __set_slice leaving the gap end where it is, so that the old elements stay
SetSliceInserts(s, sl, values) ==
    IF SliceStep(sl) = 0 THEN Raise(s, "ValueError")
    ELSE LET ix == SliceIndices(sl, Length(s))
         IN  IF ix.step # 1
             THEN LET xr == XRange(ix.start, ix.stop, ix.step)
                  IN  IF Len(values) # Len(xr) THEN Raise(s, "ValueError")
                      ELSE SetEach(s, xr, values, 1)
             ELSE LET moved == move_gap(s, ix.start)
                      sized == resize_gap(moved, Len(values))
                  IN  IF sized.err # "none" THEN sized
                      ELSE WriteGap(sized, values, 1)

\* __set_slice comparing the lengths of an extended slice after its loop
SetSliceChecksLate(s, sl, values) ==
    IF SliceStep(sl) = 0 THEN Raise(s, "ValueError")
    ELSE LET ix == SliceIndices(sl, Length(s))
         IN  IF ix.step # 1
             THEN LET xr == XRange(ix.start, ix.stop, ix.step)
                      written == SetEach(s, xr, values, 1)
                  IN  IF Len(values) # Len(xr) THEN Raise(written, "ValueError")
                      ELSE written
             ELSE LET moved == move_gap(s, ix.start)
                      sized == resize_gap(moved, Len(values))
                  IN  IF sized.err # "none" THEN sized
                      ELSE WriteGap([sized EXCEPT
                                        !.gap_end = sized.gap_end + ix.stop - ix.start],
                                    values, 1)

\* __set_slice; values is the value sequence (a generator has been consumed
\* into a list by then)
set_slice(s, sl, values) ==
    IF SliceStep(sl) = 0 THEN Raise(s, "ValueError")
    ELSE LET ix == SliceIndices(sl, Length(s))
         IN  IF ix.step # 1
             THEN LET xr == XRange(ix.start, ix.stop, ix.step)
                  IN  IF Len(values) # Len(xr) THEN Raise(s, "ValueError")
                      ELSE SetEach(s, xr, values, 1)
             ELSE LET moved == move_gap(s, ix.start)
                      sized == resize_gap(moved, Len(values))
                  IN  IF sized.err # "none" THEN sized
                      ELSE WriteGap([sized EXCEPT
                                        !.gap_end = sized.gap_end + ix.stop - ix.start],
                                    values, 1)

\* __del_index moving the gap before it looks at the index
DelIndexMovesFirst(s, i) ==
    LET moved == move_gap(s, i)
    IN  IF ~enforce_index(s, i) THEN Raise(moved, "IndexError")
        ELSE IF moved.err # "none" THEN moved
             ELSE [moved EXCEPT !.gap_end = moved.gap_end + 1]

\* __del_index
del_index(s, i) ==
    IF ~enforce_index(s, i) THEN Raise(s, "IndexError")
    ELSE LET moved == move_gap(s, i)
         IN  IF moved.err # "none" THEN moved
             ELSE [moved EXCEPT !.gap_end = moved.gap_end + 1]

\* the loop of __del_slice over an extended slice, enumerate(xr) from its
\* k-th item on (count is k - 1): del self[index - count] is __del_index
RECURSIVE DelEach(_, _, _)
DelEach(s, xr, k) ==
    IF s.err # "none" \/ k > Len(xr) THEN s
    ELSE DelEach(del_index(s, xr[k] - (k - 1)), xr, k + 1)

\* __del_slice widening the gap by stop - start, whatever the range
DelSliceUnguarded(s, sl) ==
    IF SliceStep(sl) = 0 THEN Raise(s, "ValueError")
    ELSE LET ix == SliceIndices(sl, Length(s))
             xr == XRange(ix.start, ix.stop, ix.step)
         IN  IF ix.step # 1 THEN DelEach(s, xr, 1)
             ELSE LET moved == move_gap(s, ix.start)
                  IN  IF moved.err # "none" THEN moved
                      ELSE [moved EXCEPT !.gap_end = moved.gap_end + ix.stop - ix.start]

\* __del_slice
del_slice(s, sl) ==
    IF SliceStep(sl) = 0 THEN Raise(s, "ValueError")
    ELSE LET ix == SliceIndices(sl, Length(s))
             xr == XRange(ix.start, ix.stop, ix.step)
         IN  IF ix.step # 1 THEN DelEach(s, xr, 1)
             ELSE IF Len(xr) > 0
                  THEN LET moved == move_gap(s, ix.start)
                       IN  IF moved.err # "none" THEN moved
                           ELSE [moved EXCEPT !.gap_end = moved.gap_end + Len(xr)]
                  ELSE s

\* del a[k:] on the array
ArrDelFrom(a, k) ==
    LET lo == IF k < 0 THEN Max(0, k + Len(a)) ELSE k
    IN  IF lo >= Len(a) THEN a ELSE SubSeq(a, 1, lo)

\* __enter__ handing out the array with the gap still in it
EnterKeepsGap(s) == move_gap(s, Length(s))

\* __enter__ cutting the array where the gap ends
EnterCutsAtGapEnd(s) ==
    LET moved == move_gap(s, Length(s))
    IN  IF moved.err # "none" THEN moved
        ELSE [moved EXCEPT !.buf = ArrDelFrom(moved.buf, moved.gap_end)]

\* __enter__: the buffer while the raw array is handed out
enter(s) ==
    LET moved == move_gap(s, Length(s))
    IN  IF moved.err # "none" THEN moved
        ELSE [moved EXCEPT !.buf = ArrDelFrom(moved.buf, moved.gap_start)]

\* __exit__ keeping the content end it had on entry
ExitKeepsEnd(s) ==
    LET a == s.buf \o Fill(Item, s.gap_size)
    IN  [s EXCEPT !.buf = a,
                  !.gap_start = s.content_end - s.gap_size,
                  !.gap_end = s.content_end]

\* __exit__
exit(s) ==
    LET a == s.buf \o Fill(Item, s.gap_size)
    IN  [s EXCEPT !.buf = a,
                  !.content_end = Len(a),
                  !.gap_start = Len(a) - s.gap_size,
                  !.gap_end = Len(a)]

\* extend, with the items of a sequence other than the buffer itself: the
\* with statement runs __exit__ also when buf.extend(other) has raised
extend(s, other) ==
    LET raw == enter(s)
        items == Accepted(other, 1)
    IN  IF raw.err # "none" THEN raw
        ELSE exit([raw EXCEPT !.buf = raw.buf \o items,
                              !.err = IF Len(items) < Len(other)
                                      THEN "TypeError" ELSE "none"])

\* a block run on the raw array a: pops times raw.pop(), then
\* raw.extend(items), then an exception if fails; raw.pop() of an empty array
\* raises IndexError and ends the block. The array as the block leaves it,
\* with the exception it raised.
BlockRun(a, blk) ==
    IF blk.pops > Len(a) THEN [raw |-> <<>>, err |-> "IndexError"]
    ELSE [raw |-> Take(a, Len(a) - blk.pops) \o blk.items,
          err |-> IF blk.fails THEN "Exception" ELSE "none"]

\* with b as raw: block. __exit__ runs whether the block completed or raised
\* and lets the exception through. entered is the array __enter__ returned,
\* left the array as the block left it.
with_block(s, blk) ==
    LET raw == enter(s)
    IN  IF raw.err # "none" THEN [s |-> raw, entered |-> <<>>, left |-> <<>>]
        ELSE LET done == BlockRun(raw.buf, blk)
             IN  [s |-> exit([raw EXCEPT !.buf = done.raw, !.err = done.err]),
                  entered |-> raw.buf,
                  left |-> done.raw]

\* insert assigning to the slice [index:index + 1]
InsertOverwrites(s, index, item) ==
    set_slice(s, Slice(Some(index), Some(index + 1), None), <<item>>)

\* insert
insert(s, index, item) == set_slice(s, Slice(Some(index), Some(index), None), <<item>>)

\* append
append(s, item) == insert(s, Length(s), item)

\* a call leaving the gap at the end of the content, as __enter__ does
OutcomeGapAtEnd(s, res) == [s |-> move_gap(s, Length(s)), res |-> res]

\* what a call gives back: the buffer it leaves (with the exception it raised,
\* if any) and the value it returned (<<>> when it returns none)
Outcome(s, res) == [s |-> s, res |-> res]

\* pop; index is None when the argument is omitted
pop(s, index) ==
    IF Length(s) = 0 THEN Outcome(Raise(s, "IndexError"), <<>>)
    ELSE LET i == IF index = None THEN Length(s) - 1 ELSE index[1]
             item == get_index(s, i)
         IN  IF item.err # "none" THEN Outcome(Raise(s, item.err), <<>>)
             ELSE LET deleted == del_index(s, i)
                  IN  Outcome(deleted,
                              IF deleted.err = "none" THEN <<item.val>> ELSE <<>>)

\* the loop of index over xr from its k-th item on: [val, err], the index found
\* or the error raised
RECURSIVE IndexIn(_, _, _, _)
IndexIn(s, item, xr, k) ==
    IF k > Len(xr) THEN [val |-> 0, err |-> "ValueError"]
    ELSE LET r == get_index(s, xr[k])
         IN  IF r.err # "none" THEN [val |-> 0, err |-> r.err]
             ELSE IF r.val = item THEN [val |-> xr[k], err |-> "none"]
             ELSE IndexIn(s, item, xr, k + 1)

\* index scanning from the first element whatever start is
IndexIgnoresStart(s, item, start, end) ==
    LET e == IF end = None THEN Length(s) ELSE end[1]
        ix == SliceIndices(Slice(Some(start), Some(e), None), Length(s))
    IN  IF start # e
        THEN IndexIn(s, item, XRange(0, ix.stop, ix.step), 1)
        ELSE [val |-> 0, err |-> "ValueError"]

\* index raising IndexError on an empty buffer
IndexUnderflows(s, item, start, end) ==
    LET e == IF end = None THEN Length(s) ELSE end[1]
        ix == SliceIndices(Slice(Some(start), Some(e), None), Length(s))
    IN  IF Length(s) = 0 THEN [val |-> 0, err |-> "IndexError"]
        ELSE IF start # e
        THEN IndexIn(s, item, XRange(ix.start, ix.stop, ix.step), 1)
        ELSE [val |-> 0, err |-> "ValueError"]

\* index; end is None when the argument is omitted: [val, err]
index(s, item, start, end) ==
    LET e == IF end = None THEN Length(s) ELSE end[1]
        ix == SliceIndices(Slice(Some(start), Some(e), None), Length(s))
    IN  IF start # e
        THEN IndexIn(s, item, XRange(ix.start, ix.stop, ix.step), 1)
        ELSE [val |-> 0, err |-> "ValueError"]

\* remove deleting the last item that equals item
RemoveLast(s, item) ==
    LET found == IndexIn(s, item, XRange(Length(s) - 1, -1, -1), 1)
    IN  IF found.err # "none" THEN Raise(s, found.err)
        ELSE del_index(s, found.val)

\* remove
remove(s, item) ==
    LET found == index(s, item, 0, None)
    IN  IF found.err # "none" THEN Raise(s, found.err)
        ELSE del_index(s, found.val)

\* the loop of reverse from i on: the two reads, then the two assignments,
\* self[-(i + 1)] first
RECURSIVE ReverseFrom(_, _)
ReverseFrom(s, i) ==
    IF s.err # "none" \/ i >= Length(s) \div 2 THEN s
    ELSE LET lo == get_index(s, i)
             hi == get_index(s, -(i + 1))
         IN  IF lo.err # "none" THEN Raise(s, lo.err)
             ELSE IF hi.err # "none" THEN Raise(s, hi.err)
             ELSE ReverseFrom(set_index(set_index(s, -(i + 1), lo.val), i, hi.val),
                              i + 1)

\* reverse
reverse(s) == IF Length(s) > 1 THEN ReverseFrom(s, 0) ELSE s

\* buf.extend(self) on the raw array: the array iterates the buffer through
\* __getitem__, from index i on, and appends each item as it gets it
RECURSIVE ExtendFrom(_, _)
ExtendFrom(raw, i) ==
    LET r == get_index(raw, i)
    IN  IF r.err # "none" THEN raw
        ELSE ExtendFrom([raw EXCEPT !.buf = raw.buf \o <<r.val>>], i + 1)

\* extend, with the buffer itself
extend_self(s) ==
    LET raw == enter(s)
    IN  IF raw.err # "none" THEN raw ELSE exit(ExtendFrom(raw, 0))

\* __compare taking a sequence that runs out first for an equal one
RECURSIVE ComparePrefixEqual(_, _, _)
ComparePrefixEqual(s, other, i) ==
    LET si == get_index(s, i)
    IN  IF si.err # "none" \/ i >= Len(other) THEN 0
        ELSE IF other[i + 1] > si.val THEN -1
        ELSE IF other[i + 1] < si.val THEN 1
        ELSE ComparePrefixEqual(s, other, i + 1)

\* __compare with a sized sequence, izip_longest(self, other) from its i-th
\* pair on (i from 0): -1, 0 or 1
RECURSIVE compare(_, _, _)
compare(s, other, i) ==
    LET si == get_index(s, i)
    IN  IF si.err # "none" /\ i >= Len(other) THEN 0
        ELSE IF si.err # "none" THEN -1
        ELSE IF i >= Len(other) THEN 1
        ELSE IF other[i + 1] > si.val THEN -1
        ELSE IF other[i + 1] < si.val THEN 1
        ELSE compare(s, other, i + 1)

\* __cmp__
cmp(s, other) == compare(s, other, 0)

\* __eq__ with a sized sequence
eq(s, other) == IF Len(other) # Length(s) THEN FALSE ELSE compare(s, other, 0) = 0

\* the gap_size __init__ takes when it is given none
DefaultGapSize == 100

\* gapbuffer(self.typecode, self): a new buffer whose initial content the
\* array takes by iterating the buffer
NewFrom(s) == New(Iterate(s), DefaultGapSize)

\* the value a call returns, or nothing when the call has raised
Returned(s, value) ==
    IF s.err = "none" THEN <<[value EXCEPT !.err = "none"]>> ELSE <<>>

\* __add__ extending the buffer itself and returning it
AddInPlace(s, items) ==
    LET added == extend(s, items)
    IN  Outcome(added, Returned(added, added))

\* __add__; items is what iterating other yields
add(s, items) ==
    LET added == extend(NewFrom(s), items)
    IN  Outcome(Raise(s, added.err), Returned(added, added))

\* __iadd__ with an iterable other than the buffer itself, and with itself
iadd(s, items) ==
    LET r == extend(s, items)
    IN  Outcome(r, Returned(r, r))

iadd_self(s) ==
    LET r == extend_self(s)
    IN  Outcome(r, Returned(r, r))

\* the loop of __mul__, for i in xrange(n): multiplied.extend(self)
RECURSIVE MulLoop(_, _, _)
MulLoop(multiplied, s, n) ==
    IF n <= 0 \/ multiplied.err # "none" THEN multiplied
    ELSE MulLoop(extend(multiplied, Iterate(s)), s, n - 1)

\* __mul__ extending one time less
MulOnceLess(s, n) ==
    LET multiplied == MulLoop(New(<<>>, DefaultGapSize), s, n - 1)
    IN  Outcome(Raise(s, multiplied.err), Returned(multiplied, multiplied))

\* __mul__
mul(s, n) ==
    LET multiplied == IF n > 0 THEN MulLoop(New(<<>>, DefaultGapSize), s, n)
                      ELSE New(<<>>, DefaultGapSize)
    IN  Outcome(Raise(s, multiplied.err), Returned(multiplied, multiplied))

\* the loop of __imul__, for i in xrange(n - 1): self.extend(self), with
\* count passes left
RECURSIVE IMulLoop(_, _)
IMulLoop(s, count) ==
    IF count <= 0 \/ s.err # "none" THEN s
    ELSE IMulLoop(extend_self(s), count - 1)

\* __imul__
imul(s, n) ==
    LET r == IF n <= 0 THEN del_slice(s, Slice(None, None, None))
             ELSE IMulLoop(s, n - 1)
    IN  Outcome(r, Returned(r, r))

\* re.search(re.escape(probe), text) is not None: probe occurs in text
Search(probe, text) ==
    \E i \in 0..(Len(text) - Len(probe)) : SubSeq(text, i + 1, i + Len(probe)) = probe

\* len(re.findall(re.escape(probe), text)) for a non-empty probe: the matches
\* found from position pos (from 1) on, each search resuming after the match
RECURSIVE FindAll(_, _, _)
FindAll(probe, text, pos) ==
    IF pos + Len(probe) - 1 > Len(text) THEN 0
    ELSE IF SubSeq(text, pos, pos + Len(probe) - 1) = probe
         THEN 1 + FindAll(probe, text, pos + Len(probe))
         ELSE FindAll(probe, text, pos + 1)

\* __contains__ looking at every slot of the backing array
ContainsScansArray(s, value) == \E k \in 1..Len(s.buf) : value = s.buf[k]

\* __contains__ for a value that is not a string: for item in self
contains(s, value) ==
    LET items == Iterate(s)
    IN  \E k \in 1..Len(items) : value = items[k]

\* count for an item that is not a string
count(s, item) ==
    LET items == Iterate(s)
    IN  Cardinality({k \in 1..Len(items) : items[k] = item})

\* __contains__ and count of a text buffer for a string probe, within
\* with self as buf; the items of the model stand for characters
contains_text(s, probe) ==
    LET raw == enter(s)
    IN  IF raw.err # "none" THEN Outcome(raw, <<>>)
        ELSE Outcome(exit(raw), <<Search(probe, raw.buf)>>)

count_text(s, probe) ==
    LET raw == enter(s)
    IN  IF raw.err # "none" THEN Outcome(raw, <<>>)
        ELSE Outcome(exit(raw), <<FindAll(probe, raw.buf, 1)>>)

\* the generator of __get_slice reading the backing array at the logical index
RECURSIVE GetEachRaw(_, _, _)
GetEachRaw(s, xr, k) ==
    IF k > Len(xr) THEN [vals |-> <<>>, err |-> "none"]
    ELSE IF ~ArrOk(s.buf, xr[k]) THEN [vals |-> <<>>, err |-> "IndexError"]
    ELSE LET rest == GetEachRaw(s, xr, k + 1)
         IN  [vals |-> <<ArrGet(s.buf, xr[k])>> \o rest.vals, err |-> rest.err]

\* the generator of __get_slice, (self[i] for i in xr), from the k-th index
\* on: the items it yields and the error that ends it, [vals, err]
RECURSIVE GetEach(_, _, _)
GetEach(s, xr, k) ==
    IF k > Len(xr) THEN [vals |-> <<>>, err |-> "none"]
    ELSE LET r == get_index(s, xr[k])
         IN  IF r.err # "none" THEN [vals |-> <<>>, err |-> r.err]
             ELSE LET rest == GetEach(s, xr, k + 1)
                  IN  [vals |-> <<r.val>> \o rest.vals, err |-> rest.err]

\* __get_slice: the new buffer, with the error raised if any
get_slice(s, sl) ==
    IF SliceStep(sl) = 0 THEN Raise(New(<<>>, DefaultGapSize), "ValueError")
    ELSE LET ix == SliceIndices(sl, Length(s))
             got == GetEach(s, XRange(ix.start, ix.stop, ix.step), 1)
         IN  IF got.err # "none" THEN Raise(New(<<>>, DefaultGapSize), got.err)
             ELSE New(got.vals, DefaultGapSize)

\* b[sl] = b[sl]: the slice is read into a new buffer, which is then assigned
set_slice_from_self(s, sl) ==
    LET values == get_slice(s, sl)
    IN  IF values.err # "none" THEN Raise(s, values.err)
        ELSE set_slice(s, sl, Iterate(values))

\* the loop of __set_slice writing into the gap when the values are the
\* buffer itself: for v in values reads self[i] for i = 0, 1, ... from the
\* buffer as the loop has changed it so far and ends when that read raises
\* IndexError; the write raises IndexError beyond the end of the array
RECURSIVE WriteGapFromSelf(_, _)
WriteGapFromSelf(s, i) ==
    LET v == get_index(s, i)
    IN  IF s.err # "none" \/ v.err # "none" THEN s
        ELSE IF ~ArrOk(s.buf, s.gap_start) THEN Raise(s, "IndexError")
        ELSE WriteGapFromSelf([s EXCEPT !.buf = ArrSet(s.buf, s.gap_start, v.val),
                                        !.gap_start = s.gap_start + 1],
                              i + 1)

\* __set_slice with the buffer itself as the value, b[sl] = b: len(values) is
\* len(self); for an extended slice izip(xr, values) reads self[k] just
\* before it assigns self[xr[k]]
RECURSIVE SetEachFromSelf(_, _, _)
SetEachFromSelf(s, xr, k) ==
    IF s.err # "none" \/ k > Len(xr) THEN s
    ELSE LET v == get_index(s, k - 1)
         IN  IF v.err # "none" THEN s
             ELSE SetEachFromSelf(set_index(s, xr[k], v.val), xr, k + 1)

set_slice_self(s, sl) ==
    IF SliceStep(sl) = 0 THEN Raise(s, "ValueError")
    ELSE LET ix == SliceIndices(sl, Length(s))
         IN  IF ix.step # 1
             THEN LET xr == XRange(ix.start, ix.stop, ix.step)
                  IN  IF Length(s) # Len(xr) THEN Raise(s, "ValueError")
                      ELSE SetEachFromSelf(s, xr, 1)
             ELSE LET moved == move_gap(s, ix.start)
                      sized == resize_gap(moved, Length(moved))
                  IN  IF sized.err # "none" THEN sized
                      ELSE WriteGapFromSelf([sized EXCEPT
                                                !.gap_end = sized.gap_end + ix.stop - ix.start],
                                            0)

\* with b as raw: b.extend(items) -- extend enters and leaves the raw access
\* a second time while the block of the first is running
with_extend(s, items) ==
    LET raw == enter(s)
    IN  IF raw.err # "none" THEN raw
        ELSE LET inner == extend(raw, items)
             IN  exit(inner)

\* with b as raw: items in b -- the text query enters and leaves the raw
\* access a second time
with_contains(s, probe) ==
    LET raw == enter(s)
    IN  IF raw.err # "none" THEN Outcome(raw, <<>>)
        ELSE LET inner == contains_text(raw, probe)
             IN  Outcome(exit(inner.s), inner.res)

\* an iterable without __len__ (a generator): it yields items in order, once
\* and then no more, or over and over when it is endless
Generator(items, endless) == [items |-> items, endless |-> endless]

\* the i-th item (from 0) a generator yields, <<>> when it has run out
Yields(gen, i) ==
    IF gen.endless THEN <<gen.items[(i % Len(gen.items)) + 1]>>
    ELSE IF i < Len(gen.items) THEN <<gen.items[i + 1]>>
    ELSE <<>>

\* __compare pairing the buffer with a generator as it pairs it with a sized
\* sequence, from the i-th pair on: [res, taken]
RECURSIVE CompareIterates(_, _, _)
CompareIterates(s, gen, i) ==
    LET si == get_index(s, i)
        oi == Yields(gen, i)
    IN  IF si.err # "none" /\ oi = <<>> THEN [res |-> 0, taken |-> i]
        ELSE IF si.err # "none" THEN [res |-> -1, taken |-> i + 1]
        ELSE IF oi = <<>> THEN [res |-> 1, taken |-> i]
        ELSE IF oi[1] > si.val THEN [res |-> -1, taken |-> i + 1]
        ELSE IF oi[1] < si.val THEN [res |-> 1, taken |-> i + 1]
        ELSE CompareIterates(s, gen, i + 1)

\* __compare with an iterable without __len__, from its i-th item on: the
\* result and the number of items taken from the iterable, [res, taken]
compare_unsized(s, gen, i) == [res |-> 1, taken |-> i]

\* __cmp__ and __eq__ with an iterable without __len__: [res, taken]
cmp_unsized(s, gen) == compare_unsized(s, gen, 0)

eq_unsized(s, gen) ==
    LET c == compare_unsized(s, gen, 0)
    IN  [res |-> c.res = 0, taken |-> c.taken]

-----------------------------------------------------------------------------
(* The state machine: one buffer, and the public operations a caller       *)
(* applies to it one after the other.                                      *)

\* the buffer the state variables hold
self == [buf |-> buf, gap_start |-> gap_start, gap_end |-> gap_end,
         content_end |-> content_end, gap_size |-> gap_size, err |-> "none"]

\* the offset ordering of the data model
Ordered(s) ==
    /\ 0 <= s.gap_start
    /\ s.gap_start <= s.gap_end
    /\ s.gap_end <= s.content_end
    /\ s.content_end <= Len(s.buf)

\* the inputs of the operations: indexes inside and outside every length, slice
\* bounds omitted, negative (inside and outside) and positive (inside and
\* outside), steps omitted, positive and negative, value sequences shorter
\* and longer than the slices
Indexes == (-(MaxLen + 1))..(MaxLen + 1)
SliceBounds == {None} \cup {Some(k) : k \in {-(MaxLen + 1), -1, 1, MaxLen + 1}}
Steps == {None, Some(2), Some(-1), Some(-2)}
ValueSeqs == {<<>>, <<1>>, <<2, 1>>}
Starts == {-(MaxLen + 1), -1, 0, 1, MaxLen + 1}
Others == SeqsUpTo(Vals, 2)

NoSlice == Slice(None, None, None)

\* a public operation applied to the buffer s
Apply(s, op, idx, sl, vals) ==
    CASE op = "get_index" ->
            LET r == get_index(s, idx)
            IN  Outcome(Raise(s, r.err), IF r.err = "none" THEN <<r.val>> ELSE <<>>)
      [] op = "set_index" -> Outcome(set_index(s, idx, vals[1]), <<>>)
      [] op = "set_slice" -> Outcome(set_slice(s, sl, vals), <<>>)
      [] op = "del_index" -> Outcome(del_index(s, idx), <<>>)
      [] op = "del_slice" -> Outcome(del_slice(s, sl), <<>>)
      [] op = "insert" -> Outcome(insert(s, idx, vals[1]), <<>>)
      [] op = "append" -> Outcome(append(s, vals[1]), <<>>)
      [] op = "extend" -> Outcome(extend(s, vals), <<>>)
      [] op = "pop" -> pop(s, Some(idx))
      [] op = "pop_last" -> pop(s, None)
      [] op = "index" ->
            LET r == index(s, vals[1], idx, sl.stop)
            IN  Outcome(Raise(s, r.err), IF r.err = "none" THEN <<r.val>> ELSE <<>>)
      [] op = "remove" -> Outcome(remove(s, vals[1]), <<>>)
      [] op = "reverse" -> Outcome(reverse(s), <<>>)
      [] op = "extend_self" -> Outcome(extend_self(s), <<>>)
      [] op = "cmp" -> Outcome(s, <<cmp(s, vals)>>)
      [] op = "eq" -> Outcome(s, <<eq(s, vals)>>)

\* no call is in progress
Idle == [op |-> "none", idx |-> 0, sl |-> NoSlice, vals |-> <<>>, res |-> <<>>,
         err |-> "none", before |-> <<>>, layout |-> <<0, 0, 0, 0>>, ok |-> TRUE,
         kept |-> TRUE, arg |-> <<>>]

\* the caller may apply one more operation
Ready == last.op = "none" /\ ops < MaxOps /\ Length(self) <= MaxLen

\* the caller applies an operation: the buffer becomes the one the operation
\* leaves, within the bounds of the model (b.extend(b) doubles the content, so
\* it may leave twice the longest content), and the call records its arguments,
\* what it returned or raised, the logical content, the offsets (with the
\* capacity) and the offset ordering of the buffer it was applied to, and
\* whether it has left the backing array as it was
Do(op, idx, sl, vals) ==
    \E r \in {Apply(self, op, idx, sl, vals)} :
        /\ Length(r.s) <= (IF op = "extend_self" THEN 2 * MaxLen ELSE MaxLen)
        /\ buf' = r.s.buf
        /\ gap_start' = r.s.gap_start
        /\ gap_end' = r.s.gap_end
        /\ content_end' = r.s.content_end
        /\ gap_size' = r.s.gap_size
        /\ ops' = ops + 1
        /\ last' = [op |-> op, idx |-> idx, sl |-> sl, vals |-> vals,
                    res |-> r.res, err |-> r.s.err,
                    before |-> Iterate(self),
                    layout |-> <<gap_start, gap_end, content_end, Len(buf)>>,
                    ok |-> Ordered(self),
                    kept |-> r.s.buf = buf,
                    arg |-> <<>>]

\* b = gapbuffer("i", content, g)
Init ==
    \E content \in SeqsUpTo(Vals, MaxLen), g \in 0..MaxGap :
        LET r == New(content, g)
        IN  /\ buf = r.buf
            /\ gap_start = r.gap_start
            /\ gap_end = r.gap_end
            /\ content_end = r.content_end
            /\ gap_size = r.gap_size
            /\ ops = 0
            /\ last = [Idle EXCEPT !.op = "init", !.vals = content]

\* the caller has taken the outcome of the call
Return ==
    /\ last.op # "none"
    /\ last' = Idle
    /\ UNCHANGED <<buf, gap_start, gap_end, content_end, gap_size, ops>>

\* x = b[i]
GetItem ==
    /\ Ready
    /\ \E i \in Indexes : Do("get_index", i, NoSlice, <<>>)

\* b[i] = v
SetItem ==
    /\ Ready
    /\ \E i \in Indexes, v \in Vals : Do("set_index", i, NoSlice, <<v>>)

\* b[start:stop:step] = values
SetSliceItem ==
    /\ Ready
    /\ \E start \in SliceBounds, stop \in SliceBounds, step \in Steps,
          values \in ValueSeqs :
        Do("set_slice", 0, Slice(start, stop, step), values)

\* del b[i]
DelItem ==
    /\ Ready
    /\ \E i \in Indexes : Do("del_index", i, NoSlice, <<>>)

\* del b[start:stop:step]
DelSliceItem ==
    /\ Ready
    /\ \E start \in SliceBounds, stop \in SliceBounds, step \in Steps :
        Do("del_slice", 0, Slice(start, stop, step), <<>>)

\* b.insert(k, x)
InsertItem ==
    /\ Ready
    /\ \E k \in Indexes, x \in Vals : Do("insert", k, NoSlice, <<x>>)

\* b.append(x)
AppendItem ==
    /\ Ready
    /\ \E x \in Vals : Do("append", 0, NoSlice, <<x>>)

\* b.extend(other)
ExtendItems ==
    /\ Ready
    /\ \E other \in ValueSeqs : Do("extend", 0, NoSlice, other)

\* x = b.pop(k), x = b.pop()
PopItem ==
    /\ Ready
    /\ \/ \E k \in Indexes : Do("pop", k, NoSlice, <<>>)
       \/ Do("pop_last", 0, NoSlice, <<>>)

\* i = b.index(x, start, end), with end given or omitted
IndexItem ==
    /\ Ready
    /\ \E x \in Vals, start \in Starts, end \in SliceBounds :
        Do("index", start, Slice(None, end, None), <<x>>)

\* b.remove(x)
RemoveItem ==
    /\ Ready
    /\ \E x \in Vals : Do("remove", 0, NoSlice, <<x>>)

\* b.reverse()
ReverseItems ==
    /\ Ready
    /\ Do("reverse", 0, NoSlice, <<>>)

\* b.extend(b)
ExtendSelf ==
    /\ Ready
    /\ Do("extend_self", 0, NoSlice, <<>>)

\* cmp(b, other), b == other
CompareItems ==
    /\ Ready
    /\ \E other \in Others :
        \/ Do("cmp", 0, NoSlice, other)
        \/ Do("eq", 0, NoSlice, other)

Next ==
    \/ Return
    \/ GetItem
    \/ SetItem
    \/ SetSliceItem
    \/ DelItem
    \/ DelSliceItem
    \/ InsertItem
    \/ AppendItem
    \/ ExtendItems
    \/ PopItem
    \/ IndexItem
    \/ RemoveItem
    \/ ReverseItems
    \/ ExtendSelf
    \/ CompareItems

Spec == Init /\ [][Next]_vars

-----------------------------------------------------------------------------
(* Values of the wrong type: the same buffer and operations, and calls that *)
(* are given a value the array rejects, alone or after a value it accepts.  *)

WrongSeqs == {<<v>> : v \in NotInts} \cup {<<1, v>> : v \in NotInts}

\* b[i] = v with v of the wrong type
SetItemWrong ==
    /\ Ready
    /\ \E i \in Indexes, v \in NotInts : Do("set_index", i, NoSlice, <<v>>)

\* b.insert(k, x) with x of the wrong type
InsertWrong ==
    /\ Ready
    /\ \E k \in Indexes, x \in NotInts : Do("insert", k, NoSlice, <<x>>)

\* b[start:stop:step] = values with a value of the wrong type
SetSliceWrong ==
    /\ Ready
    /\ \E start \in SliceBounds, stop \in SliceBounds, step \in Steps,
          values \in WrongSeqs :
        Do("set_slice", 0, Slice(start, stop, step), values)

\* b.extend(other) with a value of the wrong type
ExtendWrong ==
    /\ Ready
    /\ \E other \in WrongSeqs : Do("extend", 0, NoSlice, other)

TypedNext ==
    \/ Next
    \/ SetItemWrong
    \/ InsertWrong
    \/ SetSliceWrong
    \/ ExtendWrong

SpecTyped == Init /\ [][TypedNext]_vars

-----------------------------------------------------------------------------
(* The sequence protocol: the buffer is brought into some layout by        *)
(* single-element operations and extend, and is then compared,             *)
(* concatenated, repeated, searched, sliced or handed out raw.  last.arg   *)
(* is the operand of the call when it is not a plain sequence of values.   *)

\* a call of op has given the outcome r
Gave(op, idx, sl, vals, arg, r) ==
    /\ buf' = r.s.buf
    /\ gap_start' = r.s.gap_start
    /\ gap_end' = r.s.gap_end
    /\ content_end' = r.s.content_end
    /\ gap_size' = r.s.gap_size
    /\ ops' = ops + 1
    /\ last' = [op |-> op, idx |-> idx, sl |-> sl, vals |-> vals,
                res |-> r.res, err |-> r.s.err,
                before |-> Iterate(self),
                layout |-> <<gap_start, gap_end, content_end, Len(buf)>>,
                ok |-> Ordered(self),
                kept |-> r.s.buf = buf,
                arg |-> arg]

\* b[k:k] = values, which moves the gap to k also when values is empty
SetSliceAt ==
    /\ Ready
    /\ \E k \in 0..MaxLen, values \in ValueSeqs :
        Do("set_slice", 0, Slice(Some(k), Some(k), None), values)

\* generators that yield nothing, the head of the content, something else
Generators ==
    {Generator(<<>>, FALSE)}
        \cup {Generator(q, e) : q \in {<<1>>, <<2, 1>>}, e \in BOOLEAN}

\* cmp(b, g), b == g for a generator g
CompareUnsized ==
    /\ Ready
    /\ \E gen \in Generators :
        \/ \E c \in {cmp_unsized(self, gen)} :
              Gave("cmp_unsized", c.taken, NoSlice, <<>>, gen, Outcome(self, <<c.res>>))
        \/ \E c \in {eq_unsized(self, gen)} :
              Gave("eq_unsized", c.taken, NoSlice, <<>>, gen, Outcome(self, <<c.res>>))

\* another buffer, newly constructed or with its gap moved
OtherBuffers == {New(<<>>, 0), New(<<1>>, 1), insert(New(<<2>>, 1), 1, 1)}

\* c = b + other, with other a sequence, another buffer, b itself
AddItems ==
    /\ Ready
    /\ \/ \E other \in ValueSeqs :
              Gave("add", 0, NoSlice, other, <<>>, add(self, other))
       \/ \E other \in OtherBuffers :
              Gave("add_buffer", 0, NoSlice, Iterate(other), other,
                   add(self, Iterate(other)))
       \/ Gave("add_self", 0, NoSlice, Iterate(self), <<>>, add(self, Iterate(self)))

\* b += other, with other a sequence, another buffer, b itself
IAddItems ==
    /\ Ready
    /\ \/ \E other \in ValueSeqs :
              Gave("iadd", 0, NoSlice, other, <<>>, iadd(self, other))
       \/ \E other \in OtherBuffers :
              Gave("iadd_buffer", 0, NoSlice, Iterate(other), other,
                   iadd(self, Iterate(other)))
       \/ Gave("iadd_self", 0, NoSlice, <<>>, <<>>, iadd_self(self))

\* the numbers of repetitions: negative, zero, one and more
Counts == {-1, 0, 1, 2, 3}

\* c = b * n
MulItems ==
    /\ Ready
    /\ \E n \in Counts : Gave("mul", n, NoSlice, <<>>, <<>>, mul(self, n))

\* b *= n
IMulItems ==
    /\ Ready
    /\ \E n \in Counts : Gave("imul", n, NoSlice, <<>>, <<>>, imul(self, n))

\* the values and the strings looked for: the filler item, elements, runs of
\* elements
Probes == {<<0>>, <<1>>, <<1, 1>>, <<1, 2>>, <<2, 1>>}

\* x in b, b.count(x) for a number x
ContainsItem ==
    /\ Ready
    /\ \E x \in Vals \cup {Item} :
        \/ Gave("contains", 0, NoSlice, <<x>>, <<>>, Outcome(self, <<contains(self, x)>>))
        \/ Gave("count", 0, NoSlice, <<x>>, <<>>, Outcome(self, <<count(self, x)>>))

\* x in b, b.count(x) for a string x and a text buffer b
ContainsText ==
    /\ Ready
    /\ \E x \in Probes :
        \/ Gave("contains_text", 0, NoSlice, x, <<>>, contains_text(self, x))
        \/ Gave("count_text", 0, NoSlice, x, <<>>, count_text(self, x))

\* c = b[start:stop:step]
GetSliceItem ==
    /\ Ready
    /\ \E start \in SliceBounds, stop \in SliceBounds, step \in Steps :
        \E c \in {get_slice(self, Slice(start, stop, step))} :
            Gave("get_slice", 0, Slice(start, stop, step), <<>>, <<>>,
                 Outcome(Raise(self, c.err), Returned(c, c)))

\* b[lo:hi] = b[lo:hi] for lo <= hi
RoundTrip ==
    /\ Ready
    /\ \E lo \in 0..MaxLen, hi \in 0..MaxLen :
        /\ lo <= hi
        /\ Gave("round_trip", 0, Slice(Some(lo), Some(hi), None), <<>>, <<>>,
                Outcome(set_slice_from_self(self, Slice(Some(lo), Some(hi), None)), <<>>))

\* the blocks run on the raw array
Blocks == [pops : 0..2, items : ValueSeqs, fails : BOOLEAN]

\* with b as raw: block
WithBlock ==
    /\ Ready
    /\ \E blk \in Blocks :
        \E w \in {with_block(self, blk)} :
            /\ Length(w.s) <= MaxLen
            /\ Gave("with", blk.pops, NoSlice, blk.items,
                    [entered |-> w.entered, left |-> w.left, fails |-> blk.fails],
                    Outcome(w.s, <<>>))

\* n = len(b)
LenOf ==
    /\ Ready
    /\ Gave("len", 0, NoSlice, <<>>, <<>>, Outcome(self, <<Length(self)>>))

SeqNext ==
    \/ Return
    \/ InsertItem
    \/ DelItem
    \/ AppendItem
    \/ ExtendItems
    \/ PopItem
    \/ SetSliceAt
    \/ CompareUnsized
    \/ AddItems
    \/ IAddItems
    \/ MulItems
    \/ IMulItems
    \/ ContainsItem
    \/ ContainsText
    \/ GetSliceItem
    \/ RoundTrip
    \/ WithBlock
    \/ LenOf
    \/ GetItem
    \/ IndexItem
    \/ CompareItems

SpecSeq == Init /\ [][SeqNext]_vars

-----------------------------------------------------------------------------
(* The gap tracker: __move_gap, __resize_gap and __resize_buf called on a   *)
(* buffer that single-element inserts and deletes have brought into some   *)
(* layout.  last.idx is the argument of the call, last.arg what the call   *)
(* did on the way: the copies made, the lengths the array went through.    *)

\* the targets and target sizes of the calls
Targets == -(MaxLen + 1)..(MaxLen + 1)
Sizes == 0..(MaxLen + 1)

\* b._gapbuffer__move_gap(index)
MoveGap ==
    /\ Ready
    /\ \E target \in Targets :
        Gave("move_gap", target, NoSlice, <<>>, [copies |-> move_copies(self, target)],
             Outcome(move_gap(self, target), <<>>))

\* b._gapbuffer__resize_gap(target_size)
ResizeGap ==
    /\ Ready
    /\ \E target_size \in Sizes :
        Gave("resize_gap", target_size, NoSlice, <<>>, <<>>,
             Outcome(resize_gap(self, target_size), <<>>))

\* b._gapbuffer__resize_buf(target_size)
ResizeBuf ==
    /\ Ready
    /\ \E more \in Sizes :
        Gave("resize_buf", Len(buf) + more - 1, NoSlice, <<>>,
             [steps |-> resize_steps(buf, Len(buf) + more - 1)],
             Outcome([self EXCEPT !.buf = resize_buf(buf, Len(buf) + more - 1)], <<>>))

GapNext ==
    \/ Return
    \/ InsertItem
    \/ DelItem
    \/ MoveGap
    \/ ResizeGap
    \/ ResizeBuf

SpecGap == Init /\ [][GapNext]_vars

-----------------------------------------------------------------------------
(* The buffer as its own operand: it is assigned to one of its own slices, *)
(* or its raw access is entered again while a with block is running on it. *)

\* b[lo:hi] = b for lo <= hi
SetSliceSelf ==
    /\ Ready
    /\ \E lo \in 0..MaxLen, hi \in 0..MaxLen :
        /\ lo <= hi
        /\ Gave("set_slice_self", 0, Slice(Some(lo), Some(hi), None), <<>>, <<>>,
                Outcome(set_slice_self(self, Slice(Some(lo), Some(hi), None)), <<>>))

\* with b as raw: b.extend(items), and with b as raw: x in b for a string x
WithReentered ==
    /\ Ready
    /\ \/ \E items \in ValueSeqs :
            Gave("with_extend", 0, NoSlice, items, <<>>,
                 Outcome(with_extend(self, items), <<>>))
       \/ \E x \in Probes :
            Gave("with_contains", 0, NoSlice, x, <<>>, with_contains(self, x))

SelfNext ==
    \/ Return
    \/ InsertItem
    \/ DelItem
    \/ SetSliceSelf
    \/ WithReentered

SpecSelf == Init /\ [][SelfNext]_vars

-----------------------------------------------------------------------------
(* Growth: single-element inserts at index 0, one after the other, into a  *)
(* newly constructed buffer.  last.before is the content the buffer was    *)
(* constructed with, last.vals the items inserted so far in insertion      *)
(* order, last.idx the number of inserts that enlarged the backing array.  *)

GrowInit ==
    \E content \in SeqsUpTo(Vals, MaxLen), g \in 0..MaxLen :
        LET r == New(content, g)
        IN  /\ buf = r.buf
            /\ gap_start = r.gap_start
            /\ gap_end = r.gap_end
            /\ content_end = r.content_end
            /\ gap_size = r.gap_size
            /\ ops = 0
            /\ last = [Idle EXCEPT !.op = "init", !.before = content]

\* b.insert(0, x)
InsertFront ==
    \E x \in Vals :
        \E r \in {insert(self, 0, x)} :
            /\ Length(r) <= MaxLen
            /\ buf' = r.buf
            /\ gap_start' = r.gap_start
            /\ gap_end' = r.gap_end
            /\ content_end' = r.content_end
            /\ gap_size' = r.gap_size
            /\ ops' = ops + 1
            /\ last' = [last EXCEPT !.op = "insert_front",
                                    !.vals = last.vals \o <<x>>,
                                    !.err = r.err,
                                    !.idx = IF Len(r.buf) > Len(buf)
                                            THEN last.idx + 1 ELSE last.idx]

GrowNext == InsertFront

SpecGrow == GrowInit /\ [][GrowNext]_vars

-----------------------------------------------------------------------------
(* The Python list the buffer is compared with. *)

Drop(q, n) == SubSeq(q, n + 1, Len(q))

Reverse(q) == [k \in 1..Len(q) |-> q[Len(q) + 1 - k]]

\* the items of q whose (0-based) index is not in the set removed
RECURSIVE Without(_, _, _)
Without(q, removed, k) ==
    IF k > Len(q) THEN <<>>
    ELSE (IF (k - 1) \in removed THEN <<>> ELSE <<q[k]>>) \o Without(q, removed, k + 1)

\* the (0-based) indexes a slice addresses in a list of the given length
Addressed(sl, length) ==
    LET ix == SliceIndices(sl, length)
        xr == XRange(ix.start, ix.stop, ix.step)
    IN  {xr[k] : k \in 1..Len(xr)}

\* q after q[start:stop] = values
ListSetSlice(q, sl, values) ==
    LET ix == SliceIndices(sl, Len(q))
    IN  Take(q, ix.start) \o values \o Drop(q, Max(ix.start, ix.stop))

\* q after q[start:stop:step] = values, for values of the addressed length
ListSetExtended(q, sl, values) ==
    LET ix == SliceIndices(sl, Len(q))
        xr == XRange(ix.start, ix.stop, ix.step)
    IN  [k \in 1..Len(q) |->
            IF \E j \in 1..Len(xr) : xr[j] = k - 1
            THEN values[CHOOSE j \in 1..Len(xr) : xr[j] = k - 1]
            ELSE q[k]]

\* q after del q[start:stop:step]
ListDelSlice(q, sl) == Without(q, Addressed(sl, Len(q)), 1)

\* q after q.insert(k, x)
ListInsert(q, k, x) ==
    LET j == IF k < 0 THEN Max(0, k + Len(q)) ELSE (IF k > Len(q) THEN Len(q) ELSE k)
    IN  Take(q, j) \o <<x>> \o Drop(q, j)

\* a bound of list.index: a negative one counts from the end, and one below
\* the start of the list is the start
ListBound(x, length) == IF x < 0 THEN Max(0, x + length) ELSE x

\* the (0-based) indexes i of q with start <= i < end, bounds as list.index
\* reads them, and q[i] = item
ListFinds(q, item, start, end) ==
    {i \in 0..(Len(q) - 1) : /\ ListBound(start, Len(q)) <= i
                             /\ i < ListBound(end, Len(q))
                             /\ q[i + 1] = item}

\* cmp(a, b) of two Python lists of ints
ListCmp(a, b) ==
    LET both == IF Len(a) < Len(b) THEN Len(a) ELSE Len(b)
        differ == {k \in 1..both : a[k] # b[k]}
    IN  IF differ # {}
        THEN LET k == CHOOSE d \in differ : \A e \in differ : d <= e
             IN  IF a[k] < b[k] THEN -1 ELSE 1
        ELSE IF Len(a) < Len(b) THEN -1
        ELSE IF Len(a) > Len(b) THEN 1
        ELSE 0

\* q[start:stop:step] of a Python list
ListSlice(q, sl) ==
    LET ix == SliceIndices(sl, Len(q))
        xr == XRange(ix.start, ix.stop, ix.step)
    IN  [k \in 1..Len(xr) |-> q[xr[k] + 1]]

\* q * n of a Python list
RECURSIVE ListRepeat(_, _)
ListRepeat(q, n) == IF n <= 0 THEN <<>> ELSE q \o ListRepeat(q, n - 1)

\* the logical content and the length of the buffer now
Content == Iterate(self)

\* the last call was op, applied to a buffer whose offsets were ordered
Called(op) == last.op = op /\ last.ok

\* every value the last call was given is of the element type
WellTyped == \A k \in 1..Len(last.vals) : Accepts(last.vals[k])

\* len(b) of the buffer the last call was applied to
LenBefore == last.layout[3] - (last.layout[2] - last.layout[1])

\* the offsets and the capacity of the buffer now
Layout == <<gap_start, gap_end, content_end, Len(buf)>>

-----------------------------------------------------------------------------
(* The claims. *)

\* C1: after construction and after any sequence of public operations the
\* offsets satisfy 0 <= gap_start <= gap_end <= content_end <= capacity.
C1_OffsetOrdering == Ordered(self)

\* C2: from a buffer with ordered offsets, reading b[i - len(b)] returns the
\* element b[i] holds, and assigning b[i - len(b)] = v changes exactly logical
\* element i.
C2_NegativeIndex ==
    /\ (Called("get_index") /\ last.idx < 0 /\ last.idx >= -Len(last.before))
        => /\ last.err = "none"
           /\ last.res = <<last.before[Len(last.before) + last.idx + 1]>>
    /\ (/\ Called("set_index") /\ WellTyped
        /\ last.idx < 0 /\ last.idx >= -Len(last.before))
        => /\ last.err = "none"
           /\ Content = [last.before EXCEPT
                            ![Len(last.before) + last.idx + 1] = last.vals[1]]

\* C3: after b[start:stop] = values (step 1), for any start and stop and values
\* of any length, the buffer holds what a Python list holds after the same
\* assignment, and its length has changed by len(values) minus the number of
\* elements the slice addressed.
C3_SetSliceAsList ==
    (Called("set_slice") /\ WellTyped /\ last.sl.step = None)
        => /\ last.err = "none"
           /\ Content = ListSetSlice(last.before, last.sl, last.vals)
           /\ Length(self) = Len(last.before) + Len(last.vals)
                             - Cardinality(Addressed(last.sl, Len(last.before)))

\* C4: a newly constructed buffer has the length of its initial content and
\* iterating it yields that content in order, for every gap_size >= 0.
C4_Construction ==
    last.op = "init"
        => /\ Length(self) = Len(last.vals)
           /\ Content = last.vals

C4_Witness ==
    /\ last.op = "init"
    /\ Len(last.vals) = MaxLen
    /\ gap_size > 0
    /\ last.vals[1] # last.vals[MaxLen]

\* C5: an operation gives the same result (returned value or error) and leaves
\* the same logical sequence whatever the layout: applied to the buffer, and
\* applied to a newly constructed buffer with the same logical content.
C5_LayoutInvisible ==
    (last.op \notin {"none", "init"} /\ last.ok)
        => LET c == Apply(New(last.before, gap_size),
                          last.op, last.idx, last.sl, last.vals)
           IN  /\ last.err = c.s.err
               /\ last.res = c.res
               /\ Content = Iterate(c.s)

\* C6: from a buffer with ordered offsets, insert(k, x) leaves what
\* b[k:k] = [x] and list.insert(k, x) leave, for every integer k, append(x)
\* leaves what b[len:len] = [x] leaves, and the length grows by exactly one.
C6_InsertAsList ==
    /\ (Called("insert") /\ WellTyped)
        => /\ last.err = "none"
           /\ Content = ListInsert(last.before, last.idx, last.vals[1])
           /\ Content = ListSetSlice(last.before,
                            Slice(Some(last.idx), Some(last.idx), None), last.vals)
           /\ Length(self) = Len(last.before) + 1
    /\ Called("append")
        => /\ last.err = "none"
           /\ Content = ListSetSlice(last.before,
                            Slice(Some(Len(last.before)), Some(Len(last.before)), None),
                            last.vals)
           /\ Length(self) = Len(last.before) + 1

C6_Witness ==
    /\ Called("insert")
    /\ last.idx < -Len(last.before)
    /\ Len(last.before) = MaxLen - 1
    /\ last.layout[1] > 0
    /\ last.layout[4] > last.layout[3]

\* C7: after N single-element inserts at index 0 into a buffer constructed
\* with minimum gap size g, however often the gap was resized, the buffer holds
\* the inserted elements in reverse insertion order followed by the original
\* content.
C7_GrowthKeepsOrder ==
    last.op = "insert_front"
        => /\ last.err = "none"
           /\ Content = Reverse(last.vals) \o last.before
           /\ Length(self) = Len(last.vals) + Len(last.before)

C7_Witness ==
    /\ last.op = "insert_front"
    /\ Len(last.vals) > gap_size
    /\ last.idx >= 2
    /\ last.before # <<>>
    /\ last.vals[1] # last.vals[2]

\* C8: from a buffer with ordered offsets, del b[start:stop] (step 1) removes
\* exactly the elements of the normalized range and keeps the others in their
\* order, as a Python list does, for any start and stop; an empty range leaves
\* the logical content unchanged.
C8_DelSliceAsList ==
    (Called("del_slice") /\ last.sl.step = None)
        => /\ last.err = "none"
           /\ Content = ListDelSlice(last.before, last.sl)
           /\ (Addressed(last.sl, Len(last.before)) = {} => Content = last.before)

C8_Witness ==
    /\ Called("del_slice")
    /\ last.sl.step = None
    /\ last.sl.start = Some(-1)
    /\ Len(last.before) = MaxLen
    /\ Len(Content) = MaxLen - 1
    /\ last.layout[1] > 0
    /\ last.layout[1] < last.layout[2]

\* C9: from a buffer with ordered offsets, del b[start:stop:step] with
\* step != 1, positive or negative, raises no error and leaves what the same
\* deletion leaves of a Python list.
C9_DelExtendedAsList ==
    (Called("del_slice") /\ last.sl.step # None)
        => /\ last.err = "none"
           /\ Content = ListDelSlice(last.before, last.sl)

\* C10: from a buffer with ordered offsets, b[start:stop:step] = values with
\* step != 1 and as many values as the slice addresses sets each addressed
\* index to its value, in order, and leaves every other element and the length
\* unchanged.
C10_SetExtended ==
    (/\ Called("set_slice")
     /\ WellTyped
     /\ last.sl.step # None
     /\ Len(last.vals) = Cardinality(Addressed(last.sl, Len(last.before))))
        => /\ last.err = "none"
           /\ Content = ListSetExtended(last.before, last.sl, last.vals)
           /\ Length(self) = Len(last.before)

C10_Witness ==
    /\ Called("set_slice")
    /\ last.sl.step = Some(-2)
    /\ Len(last.vals) = 2
    /\ Content # last.before
    /\ last.layout[1] > 0
    /\ last.layout[1] < last.layout[2]

\* C11: b[start:stop:step] = values with step != 1 and a number of values
\* other than the number of indexes the slice addresses (too few or too many)
\* raises ValueError and leaves the content, the offsets, the capacity and the
\* backing array as they were.
C11_LengthMismatch ==
    (/\ last.op = "set_slice"
     /\ last.sl.step # None
     /\ Len(last.vals) # Cardinality(Addressed(last.sl, LenBefore)))
        => /\ last.err = "ValueError"
           /\ Content = last.before
           /\ Layout = last.layout
           /\ last.kept

C11_Witness ==
    /\ last.op = "set_slice"
    /\ last.sl.step = Some(2)
    /\ last.err = "ValueError"
    /\ Len(last.vals) = 1
    /\ Cardinality(Addressed(last.sl, LenBefore)) = 2
    /\ last.before[1] # last.vals[1]
    /\ last.before[1] = last.before[3]
    /\ last.layout[1] > 0

\* C12: b[i], b[i] = v, del b[i] and b.pop(i) with i outside [-len(b), len(b))
\* raise IndexError and leave the backing array, gap_start, gap_end and
\* content_end as they were.
C12_IndexOutOfRange ==
    (/\ last.op \in {"get_index", "set_index", "del_index", "pop"}
     /\ (last.idx >= LenBefore \/ last.idx < -LenBefore))
        => /\ last.err = "IndexError"
           /\ last.kept
           /\ Layout = last.layout

C12_Witness ==
    /\ last.op = "del_index"
    /\ last.idx = LenBefore
    /\ LenBefore > 1
    /\ last.layout[1] = 1
    /\ last.layout[2] > last.layout[1]
    /\ last.err = "IndexError"

\* C13: from a buffer with ordered offsets, b[i] = v, insert, b[start:stop] =
\* values, b[start:stop:step] = values and extend given a value that is not of
\* the element type raise TypeError and leave the logical content as it was.
C13_TypeMismatch ==
    (/\ last.op \in {"set_index", "insert", "set_slice", "extend"}
     /\ last.ok
     /\ ~WellTyped
     /\ last.op = "set_index" => (last.idx < LenBefore /\ last.idx >= -LenBefore)
     /\ last.sl.step # None
            => Len(last.vals) = Cardinality(Addressed(last.sl, LenBefore)))
        => /\ last.err = "TypeError"
           /\ Content = last.before

\* C14: from a buffer with ordered offsets, pop(k) with -len(b) <= k < len(b),
\* and pop() for k the last index, returns the element at logical index k and
\* removes exactly that element, as list.pop(k) does.
C14_PopAsList ==
    (/\ Called("pop") \/ Called("pop_last")
     /\ LenBefore > 0
     /\ last.op = "pop" => (last.idx < LenBefore /\ last.idx >= -LenBefore))
        => LET k == IF last.op = "pop_last" THEN LenBefore - 1
                    ELSE IF last.idx < 0 THEN last.idx + LenBefore ELSE last.idx
           IN  /\ last.err = "none"
               /\ last.res = <<last.before[k + 1]>>
               /\ Content = Without(last.before, {k}, 1)

\* C15 as stated: pop, remove and index applied to an empty buffer raise an
\* error of a kind other than the one remove and index raise for an absent
\* value (ValueError), and the buffer stays empty.
C15_UnderflowDistinct ==
    (/\ last.op \in {"pop", "pop_last", "remove", "index"}
     /\ last.ok
     /\ LenBefore = 0)
        => /\ last.err \notin {"none", "ValueError"}
           /\ Length(self) = 0

\* C15, amended: applied to an empty buffer, pop raises IndexError, and remove
\* and index raise ValueError, the error they raise for a value absent from a
\* non-empty buffer; the buffer stays empty, its offsets and backing array as
\* they were.
C15_EmptyBuffer ==
    /\ (last.op \in {"pop", "pop_last", "remove", "index"} /\ LenBefore = 0)
        => /\ last.err = (IF last.op \in {"pop", "pop_last"}
                          THEN "IndexError" ELSE "ValueError")
           /\ Length(self) = 0
           /\ Content = <<>>
           /\ Layout = last.layout
           /\ last.kept
    /\ (/\ Called("remove")
        /\ LenBefore > 0
        /\ \A k \in 1..Len(last.before) : last.before[k] # last.vals[1])
        => last.err = "ValueError"

C15_Witness ==
    /\ last.op = "remove"
    /\ LenBefore = 0
    /\ last.err = "ValueError"
    /\ last.layout[2] > last.layout[1]
    /\ ops = MaxOps

\* C16: from a buffer with ordered offsets, remove(item) deletes the first
\* element equal to item and keeps every other element, later duplicates
\* included, in order; when no element equals item it raises ValueError and the
\* content is unchanged.
C16_RemoveFirst ==
    Called("remove")
        => LET occ == {k \in 1..Len(last.before) : last.before[k] = last.vals[1]}
           IN  IF occ # {}
               THEN /\ last.err = "none"
                    /\ Content = Without(last.before,
                                         {(CHOOSE k \in occ : \A j \in occ : k <= j) - 1}, 1)
                    /\ Length(self) = Len(last.before) - 1
               ELSE /\ last.err = "ValueError"
                    /\ Content = last.before

C16_Witness ==
    /\ Called("remove")
    /\ Len(last.before) = MaxLen
    /\ last.before[1] = last.vals[1]
    /\ last.before[MaxLen] = last.vals[1]
    /\ last.before[2] # last.vals[1]
    /\ Content = Drop(last.before, 1)
    /\ last.layout[1] > 0
    /\ last.layout[2] > last.layout[1]

\* C17: from a buffer with ordered offsets, wherever the gap lies and with or
\* without unused reserve, reverse() leaves the former elements in reversed
\* order and the length as it was; a buffer of at most one element is
\* unchanged.
C17_Reverse ==
    Called("reverse")
        => /\ last.err = "none"
           /\ Content = Reverse(last.before)
           /\ Length(self) = Len(last.before)
           /\ Len(last.before) <= 1 => (Content = last.before /\ last.kept)

\* C18: from a buffer with ordered offsets, extend(other) leaves the former
\* content followed by the items of other in order, which is what
\* b[len:len] = other leaves of a list and of a buffer with the same content,
\* for other empty and for other longer than the gap; b.extend(b) leaves the
\* former content twice.  Afterwards the gap is the last gap_size slots of the
\* backing array.
C18_Extend ==
    /\ (Called("extend") /\ WellTyped)
        => LET n == Len(last.before)
               at_end == Slice(Some(n), Some(n), None)
           IN  /\ last.err = "none"
               /\ Content = last.before \o last.vals
               /\ Content = ListSetSlice(last.before, at_end, last.vals)
               /\ Content = Iterate(set_slice(New(last.before, gap_size),
                                              at_end, last.vals))
    /\ Called("extend_self")
        => /\ last.err = "none"
           /\ Content = last.before \o last.before
    /\ (Called("extend") /\ WellTyped) \/ Called("extend_self")
        => /\ Length(self) = Len(Content)
           /\ gap_start = Length(self)
           /\ gap_end = gap_start + gap_size
           /\ content_end = gap_end
           /\ Len(buf) = content_end

C18_Witness ==
    /\ Called("extend_self")
    /\ Len(last.before) = MaxLen
    /\ last.before[1] # last.before[MaxLen]
    /\ last.layout[1] = 1
    /\ last.layout[2] > last.layout[1]
    /\ gap_size > 0

\* C19: from a buffer with ordered offsets, index(item, start, end) returns the
\* smallest index i of the range [start, end), bounds normalized as list.index
\* normalizes them and end the length when omitted, with b[i] = item, and
\* raises ValueError when there is none; the buffer is unchanged.
C19_IndexAsList ==
    Called("index")
        => LET n == Len(last.before)
               end == IF last.sl.stop = None THEN n ELSE last.sl.stop[1]
               found == ListFinds(last.before, last.vals[1], last.idx, end)
           IN  /\ IF found # {}
                  THEN /\ last.err = "none"
                       /\ last.res = <<CHOOSE i \in found : \A j \in found : i <= j>>
                  ELSE last.err = "ValueError"
               /\ Content = last.before
               /\ Layout = last.layout
               /\ last.kept

C19_Witness ==
    /\ Called("index")
    /\ Len(last.before) = MaxLen
    /\ last.idx = -1
    /\ last.sl.stop = Some(MaxLen + 1)
    /\ last.before[1] = last.vals[1]
    /\ last.res = <<MaxLen - 1>>
    /\ last.layout[1] = 1
    /\ last.layout[2] > last.layout[1]

\* C20: from a buffer with ordered offsets, wherever the gap lies, comparing
\* the buffer with a sized sequence is lexicographic (the first position where
\* the elements differ decides, a strict prefix is less, otherwise equal), and
\* b == other holds exactly when both have the same length and the same
\* element at every position; the buffer is unchanged.
C20_Compare ==
    /\ Called("cmp") => last.res = <<ListCmp(last.before, last.vals)>>
    /\ Called("eq")
        => last.res = <<(/\ Len(last.before) = Len(last.vals)
                         /\ \A k \in 1..Len(last.vals) : last.before[k] = last.vals[k])>>
    /\ Called("cmp") \/ Called("eq")
        => /\ last.err = "none"
           /\ Content = last.before
           /\ Layout = last.layout
           /\ last.kept

C20_Witness ==
    /\ Called("cmp")
    /\ Len(last.before) = MaxLen
    /\ Len(last.vals) = 2
    /\ Take(last.before, 2) = last.vals
    /\ last.res = <<1>>
    /\ last.layout[1] = 1
    /\ last.layout[2] > last.layout[1]

\* C21: cmp(b, other) and b == other with other an iterable without a length,
\* endless ones included, return without taking any item from other: cmp says
\* the buffer is greater, and == is false.
C21_CompareUnsized ==
    /\ last.op = "cmp_unsized" => (last.res = <<1>> /\ last.idx = 0)
    /\ last.op = "eq_unsized" => (last.res = <<FALSE>> /\ last.idx = 0)
    /\ last.op \in {"cmp_unsized", "eq_unsized"}
        => /\ last.err = "none"
           /\ Content = last.before
           /\ Layout = last.layout
           /\ last.kept

C21_Witness ==
    /\ last.op = "eq_unsized"
    /\ last.arg.endless
    /\ Len(last.before) = 2
    /\ last.arg.items = last.before
    /\ last.layout[1] = 1
    /\ last.layout[2] > last.layout[1]

\* C22: from a buffer with ordered offsets, b + other returns a new buffer
\* that holds the content of b followed by the elements of other and leaves
\* the content of b as it was, and b += other leaves b holding its former
\* content followed by the elements of other; other is a sequence, another
\* buffer, or b itself.
C22_Concatenate ==
    /\ Called("add") \/ Called("add_buffer") \/ Called("add_self")
        => /\ last.err = "none"
           /\ Len(last.res) = 1
           /\ Iterate(last.res[1]) = last.before \o last.vals
           /\ Length(last.res[1]) = Len(last.before) + Len(last.vals)
           /\ Content = last.before
           /\ Called("add_self") => last.vals = last.before
    /\ Called("iadd") \/ Called("iadd_buffer")
        => /\ last.err = "none"
           /\ Content = last.before \o last.vals
           /\ last.res = <<self>>
    /\ Called("iadd_self")
        => /\ last.err = "none"
           /\ Content = last.before \o last.before
           /\ last.res = <<self>>

C22_Witness ==
    /\ Called("add_self")
    /\ Len(last.before) = MaxLen
    /\ last.before[1] # last.before[MaxLen]
    /\ Len(last.res) = 1
    /\ Length(last.res[1]) = 2 * MaxLen
    /\ last.layout[1] = 1
    /\ last.layout[2] > last.layout[1]

\* C23: from a buffer with ordered offsets, b * n returns a new buffer that
\* holds the content of b repeated n times for n >= 1 and nothing for n <= 0,
\* and leaves the content of b as it was.
C23_Repeat ==
    Called("mul")
        => /\ last.err = "none"
           /\ Len(last.res) = 1
           /\ Iterate(last.res[1]) = ListRepeat(last.before, last.idx)
           /\ Length(last.res[1]) = Len(last.before) * (IF last.idx > 0 THEN last.idx ELSE 0)
           /\ Content = last.before
           /\ Layout = last.layout

C23_Witness ==
    /\ Called("mul")
    /\ last.idx = 3
    /\ Len(last.before) = MaxLen
    /\ last.before[1] # last.before[MaxLen]
    /\ last.layout[1] = 1
    /\ last.layout[2] > last.layout[1]

\* C24: from a buffer with ordered offsets, b *= n leaves b holding its former
\* content repeated n times for n >= 1, its length n times the former one, and
\* leaves b empty for n <= 0.
C24_RepeatInPlace ==
    Called("imul")
        => /\ last.err = "none"
           /\ Content = ListRepeat(last.before, last.idx)
           /\ Length(self) = Len(last.before) * (IF last.idx > 0 THEN last.idx ELSE 0)

\* C25: from a buffer with ordered offsets, x in b is true exactly when some
\* logical element equals x and b.count(x) is the number of such elements; for
\* a text buffer and a string x, x in b is true exactly when x is a contiguous
\* run of the logical content and b.count(x) is the number of its
\* non-overlapping occurrences there.  Gap and reserve slots are never
\* counted, and the content is left as it was.
C25_Membership ==
    /\ Called("contains")
        => last.res = <<\E k \in 1..Len(last.before) : last.before[k] = last.vals[1]>>
    /\ Called("count")
        => last.res = <<Cardinality({k \in 1..Len(last.before) :
                                        last.before[k] = last.vals[1]})>>
    /\ Called("contains_text") => last.res = <<Search(last.vals, last.before)>>
    /\ Called("count_text") => last.res = <<FindAll(last.vals, last.before, 1)>>
    /\ Called("contains") \/ Called("count")
            \/ Called("contains_text") \/ Called("count_text")
        => /\ last.err = "none"
           /\ Content = last.before

C25_Witness ==
    /\ Called("contains")
    /\ last.res = <<FALSE>>
    /\ last.vals[1] \in Vals
    /\ last.before # <<>>
    /\ \E k \in 1..Len(buf) : buf[k] = last.vals[1]
    /\ ops = MaxOps

C28_GetSliceAsList ==
    (Called("get_slice") /\ SliceStep(last.sl) # 0)
        => /\ last.err = "none"
           /\ Iterate(last.res[1]) = ListSlice(last.before, last.sl)
           /\ Ordered(last.res[1])
           /\ Content = last.before
           /\ Layout = last.layout
           /\ last.kept

C28_Witness ==
    /\ Called("get_slice")
    /\ last.sl = Slice(Some(-1), Some(-(MaxLen + 1)), Some(-1))
    /\ Len(last.before) = MaxLen
    /\ last.layout[1] = 1
    /\ last.layout[2] > 1
    /\ Len(Iterate(last.res[1])) = MaxLen
    /\ Iterate(last.res[1])[1] # Iterate(last.res[1])[2]

\* C27: for a step-1 slice over any bounds (whole range, sub-range, empty or
\* reversed range), b[s] = [] leaves the buffer that del b[s] leaves when
\* applied to an equal buffer: the same content, the same length and the same
\* outcome.
C27_DelAsSetEmpty ==
    [][(/\ Ordered(self)
        /\ last'.op = "set_slice"
        /\ last'.vals = <<>>
        /\ SliceStep(last'.sl) = 1)
          => LET deleted == del_slice(self, last'.sl)
             IN  /\ Iterate(self') = Iterate(deleted)
                 /\ Length(self') = Length(deleted)
                 /\ last'.err = deleted.err]_vars

C30_GapRestoredOnExit ==
    Called("with")
        => /\ Content = last.arg.left
           /\ Length(self) = Len(last.arg.left)
           /\ gap_len(self) = gap_size
           /\ gap_end = content_end
           /\ content_end = Len(buf)
           /\ last.arg.fails => last.err # "none"
           /\ last.err = "none" => last.arg.left = Take(last.arg.entered, Len(last.arg.entered) - last.idx) \o last.vals

C30_Witness ==
    /\ Called("with")
    /\ last.arg.fails
    /\ last.err = "Exception"
    /\ last.idx = 1
    /\ Len(last.vals) = 2
    /\ Len(last.arg.entered) = 2
    /\ last.arg.left # last.arg.entered
    /\ gap_size > 0
    /\ Content = last.arg.left

\* C31: __move_gap called with a target within -len(b)..len(b) on a buffer
\* with ordered offsets copies no element when the gap has length zero (it
\* sets gap_start = gap_end = target and leaves the array as it was), and
\* copies exactly |old gap_start - target| elements when the gap is not empty.
C31_MoveGapCopies ==
    (Called("move_gap") /\ -LenBefore <= last.idx /\ last.idx <= LenBefore)
        => LET target == IF last.idx < 0 THEN LenBefore + last.idx ELSE last.idx
               distance == IF last.layout[1] > target THEN last.layout[1] - target
                           ELSE target - last.layout[1]
           IN  /\ last.err = "none"
               /\ last.layout[1] = last.layout[2]
                    => /\ last.arg.copies = 0
                       /\ last.kept
                       /\ gap_start = target
                       /\ gap_end = target
               /\ last.layout[1] # last.layout[2] => last.arg.copies = distance

C31_Witness ==
    /\ Called("move_gap")
    /\ last.layout[1] = last.layout[2]
    /\ last.layout[1] = MaxLen
    /\ last.idx = 1
    /\ gap_start = 1
    /\ last.arg.copies = 0

\* C32: __move_gap called with a target in 0..len(b) on a non-empty buffer
\* with ordered offsets ends with gap_start = target, the gap length,
\* content_end and the capacity as they were, and the same logical sequence;
\* on an empty buffer it changes nothing.
C32_MoveGap ==
    (Called("move_gap") /\ 0 <= last.idx /\ last.idx <= LenBefore)
        => /\ last.err = "none"
           /\ LenBefore > 0 => gap_start = last.idx
           /\ gap_end - gap_start = last.layout[2] - last.layout[1]
           /\ content_end = last.layout[3]
           /\ Len(buf) = last.layout[4]
           /\ Content = last.before
           /\ Length(self) = LenBefore
           /\ LenBefore = 0 => (Layout = last.layout /\ last.kept)

C32_Witness ==
    /\ Called("move_gap")
    /\ LenBefore = MaxLen
    /\ last.layout[1] = 0
    /\ last.layout[2] > 0
    /\ last.idx = MaxLen
    /\ gap_start = MaxLen
    /\ last.before[1] # last.before[2]

\* C33: __resize_gap with a target size the gap already has changes nothing;
\* otherwise it enlarges the gap by delta = target size + gap_size - gap
\* length: gap_start stays, gap_end and content_end advance by delta,
\* content_end stays within the capacity, and the logical sequence is the
\* same (the content right of the gap is shifted intact).
C33_ResizeGap ==
    Called("resize_gap")
        => LET had == last.layout[2] - last.layout[1]
               delta == last.idx + gap_size - had
           IN  /\ last.err = "none"
               /\ had >= last.idx => (Layout = last.layout /\ last.kept)
               /\ had < last.idx
                    => /\ gap_start = last.layout[1]
                       /\ gap_end = last.layout[2] + delta
                       /\ content_end = last.layout[3] + delta
                       /\ content_end <= Len(buf)
                       /\ Len(buf) >= last.layout[4] + delta
               /\ Content = last.before
               /\ Length(self) = LenBefore

C33_Witness ==
    /\ Called("resize_gap")
    /\ last.layout[2] - last.layout[1] = 1
    /\ last.layout[1] = 1
    /\ LenBefore = MaxLen
    /\ last.before[2] # last.before[3]
    /\ last.idx = 3
    /\ gap_end - gap_start = 3 + gap_size
    /\ gap_size > 0

\* C34: __resize_buf grows the array in steps until the capacity is at least
\* the target, each step enlarging it by about one sixteenth of its current
\* size and by at least one slot (here: by no more than a sixteenth of the
\* size, rounded up, plus one slot); the capacity never decreases.
C34_GrowthBySixteenth ==
    Called("resize_buf")
        => LET steps == last.arg.steps
           IN  /\ steps[1] = last.layout[4]
               /\ steps[Len(steps)] = Len(buf)
               /\ Len(buf) >= last.idx
               /\ Len(buf) >= last.layout[4]
               /\ \A k \in 1..(Len(steps) - 1) :
                    /\ steps[k] < last.idx
                    /\ steps[k + 1] - steps[k] >= 1
                    /\ steps[k + 1] - steps[k] <= (steps[k] + 15) \div 16 + 1

\* the calls that only read the buffer
Reads == {"len", "get_index", "get_slice", "index", "eq", "cmp",
          "eq_unsized", "cmp_unsized", "contains", "count"}

\* C35: len, index get, slice get, index(), equality and ordering comparison,
\* and membership and count for a value that is not a string, whether they
\* return or raise, leave the backing array, gap_start, gap_end and
\* content_end exactly as they were.
C35_ReadsKeepLayout ==
    (last.op \in Reads /\ last.ok)
        => /\ last.kept
           /\ Layout = last.layout
           /\ last.op = "len" => last.res = <<Len(last.before)>>

C35_Witness ==
    /\ Called("index")
    /\ last.err = "none"
    /\ last.res = <<MaxLen - 1>>
    /\ gap_start = 1
    /\ gap_end > 1
    /\ Len(buf) > content_end
    /\ last.kept

\* C36: on a text buffer, in and count go through the raw view only for a
\* string of more than one character; for a string of one character the
\* answer comes from the linear scan, so the array and the offsets are left
\* exactly as they were.
C36_SingleCharacterScans ==
    ((Called("contains_text") \/ Called("count_text")) /\ Len(last.vals) <= 1)
        => /\ last.kept
           /\ Layout = last.layout

\* C37: in and count with a string on a text buffer leave the logical
\* sequence and the length as they were, and every index from -len(b) to
\* len(b) - 1 reads after the query what it read before it.
C37_TextQueryKeepsReads ==
    [][(/\ Ordered(self)
        /\ last'.op \in {"contains_text", "count_text"})
          => /\ last'.err = "none"
             /\ Iterate(self') = Iterate(self)
             /\ Length(self') = Length(self)
             /\ \A i \in (-Length(self))..(Length(self) - 1) :
                    get_index(self', i) = get_index(self, i)]_vars

\* C38: no public operation, applied in any reachable state (those with
\* offsets out of order included), calls __move_gap with an index that fails
\* its assertion 0 <= index <= len(b): no call ends with AssertionError.
C38_MoveGapPrecondition == last.err # "AssertionError"

C38_Witness ==
    /\ last.op = "del_index"
    /\ ~last.ok
    /\ last.idx = -LenBefore
    /\ LenBefore >= 2
    /\ last.err = "none"
    /\ gap_start = 0

\* C39: b[lo:hi] = b for 0 <= lo <= hi, applied to a buffer with ordered
\* offsets, ends without error and leaves what the same statement leaves in
\* a Python list: the old content with the slice replaced by a copy of the
\* whole old content.
C39_SetSliceSelf ==
    Called("set_slice_self")
        => /\ last.err = "none"
           /\ Content = ListSetSlice(last.before, last.sl, last.before)
           /\ Length(self) = Len(ListSetSlice(last.before, last.sl, last.before))

\* C40: when the raw access of a buffer with ordered offsets is entered again
\* inside a with block on it (by extend, or by a text membership query) and
\* both are left, the logical content is what the raw array held (the old
\* content, followed by the items extend appended) and the length is not
\* inflated by gap filler slots.
C40_ReentrySafe ==
    /\ Called("with_extend")
        => /\ Content = last.before \o last.vals
           /\ Length(self) = Len(last.before) + Len(last.vals)
    /\ Called("with_contains")
        => /\ Content = last.before
           /\ Length(self) = Len(last.before)

====
